---- MODULE Spec2Model ----
(***************************************************************************)
(* Model of src/src/lib/hash_password.ts: the HashPassword class and the   *)
(* user router (signup, profile update with avatar upload).                *)
(*                                                                         *)
(* Strings that the code takes apart (media types, paths, file names) are  *)
(* sequences of lexemes: "/" and "." are lexemes of their own, every other *)
(* lexeme is a run of characters holding neither.  Plaintext passwords are *)
(* sequences of bytes.  Form fields that are only tested for emptiness are *)
(* plain strings.                                                          *)
(***************************************************************************)
EXTENDS Integers, Sequences, FiniteSets, TLC

VARIABLES users, files, req, fmime, fstage, fresult, hplain, hashes, cmp

vars == <<users, files, req, fmime, fstage, fresult, hplain, hashes, cmp>>

routerVars == <<users, files, req>>
filterVars == <<fmime, fstage, fresult>>
hashVars == <<hplain, hashes, cmp>>

(* ---------------------------- bounds ---------------------------------- *)
MaxMimeLen == 4
MaxShortLen == 2
MaxReqs == 2

(* ------------------------- string helpers ----------------------------- *)
Min(a, b) == IF a < b THEN a ELSE b

\* what a destructured array element holds when the array is too short
UndefinedSeg == <<"undefined">>

HasSlash(s) == \E i \in 1..Len(s) : s[i] = "/"

FirstSlash(s) == CHOOSE i \in 1..Len(s) : s[i] = "/" /\ \A j \in 1..(i-1) : s[j] # "/"

\* String.prototype.split("/")
RECURSIVE Split(_)
Split(s) ==
    IF ~HasSlash(s) THEN <<s>>
    ELSE LET i == FirstSlash(s)
         IN <<SubSeq(s, 1, i - 1)>> \o Split(SubSeq(s, i + 1, Len(s)))

\* array element i (1-based here), undefined past the end
Nth(parts, i) == IF i <= Len(parts) THEN parts[i] ELSE UndefinedSeg

\* !x for a string or undefined
Falsy(x) == x = UndefinedSeg \/ x = <<>>

(* --------------------------- upload filter ---------------------------- *)
ACCEPTABLE_SUBTYPES == {<<"png">>, <<"jpeg">>}

isAcceptableSubtype(subtype) == subtype \in ACCEPTABLE_SUBTYPES

RejectMsg == "Only image files in png or jpeg format can be uploaded"

\* (mutant) the media type is not compared with "image"
toAcceptableImageMediaTypeNoTypeCheck(fullMimeType) ==
    LET parts == Split(fullMimeType)
        mediaType == Nth(parts, 1)
        mediaSubtype == Nth(parts, 2)
    IN  IF Falsy(mediaType) \/ Falsy(mediaSubtype) THEN <<>>
        ELSE IF ~isAcceptableSubtype(mediaSubtype) THEN <<>>
        ELSE <<<<"image">>, mediaSubtype>>

\* null is <<>>, ["image", subtype] is <<<<"image">>, subtype>>
toAcceptableImageMediaType(fullMimeType) ==
    LET parts == Split(fullMimeType)
        mediaType == Nth(parts, 1)
        mediaSubtype == Nth(parts, 2)
    IN  IF Falsy(mediaType) \/ Falsy(mediaSubtype) THEN <<>>
        ELSE IF mediaType # <<"image">> THEN <<>>
        ELSE IF ~isAcceptableSubtype(mediaSubtype) THEN <<>>
        ELSE <<<<"image">>, mediaSubtype>>

\* the callback's arguments: [err, accept]; err = "" stands for null
fileFilter(mimetype) ==
    IF toAcceptableImageMediaType(mimetype) = <<>>
    THEN [err |-> RejectMsg, accept |-> FALSE]
    ELSE [err |-> "", accept |-> TRUE]

(* --------------------------- HashPassword ----------------------------- *)
saltRounds == 10

Salts == {"salt1", "salt2"}

\* bcrypt keys on at most the first 72 bytes of the password
BcryptKey(plain) == SubSeq(plain, 1, Min(Len(plain), 72))

\* the digest, kept symbolic: distinct (cost, salt, key) give distinct digests
BcryptDigest(key, salt, cost) == <<cost, salt, key>>

\* HashPassword.generate with the salt bcrypt drew for this call
generate(plainPassword, salt) ==
    [cost |-> saltRounds, salt |-> salt,
     digest |-> BcryptDigest(BcryptKey(plainPassword), salt, saltRounds)]

\* HashPassword.compare
compare(plainPassword, hash) ==
    BcryptDigest(BcryptKey(plainPassword), hash.salt, hash.cost) = hash.digest

(* ------------------------ persistence (User model) -------------------- *)
DefaultImageName == <<"/", "image", "/", "users", "/", "default_user", ".", "jpg">>

\* new User(name, email, password): no id until saved
NewUser(name, email, password) ==
    [id |-> 0, name |-> name, email |-> email, password |-> password,
     imageName |-> DefaultImageName]

\* User.find(id): <<>> is undefined, else a one-element sequence holding a copy
UserFind(store, id) == IF id \in 1..Len(store) THEN <<store[id]>> ELSE <<>>

\* user.save(): insert the record under the next id
UserSave(store, u) == Append(store, [u EXCEPT !.id = Len(store) + 1])

\* user.update(): write the object's fields over the stored record
UserUpdate(store, u) == [store EXCEPT ![u.id] = u]

UniqueMsg == "Email has already been taken"

\* isUniqueEmail: rejects when a stored user holds the email
isUniqueEmail(store, email) == \A i \in 1..Len(store) : store[i].email # email

(* ------------------------- field validation --------------------------- *)
FieldError(param, msg, value) ==
    [param |-> param, msg |-> msg, location |-> "body", value |-> value]

\* body(param, msg).notEmpty()
notEmpty(param, msg, value) ==
    IF value = <<>> THEN <<FieldError(param, msg, value)>> ELSE <<>>

NameBlank == "Name can't be blank"
EmailBlank == "Email can't be blank"
PasswordBlank == "Password can't be blank"

\* the validators of POST / in the order they are registered
SignupValidators(store, name, email, password) ==
    notEmpty("name", NameBlank, name)
    \o notEmpty("email", EmailBlank, email)
    \o notEmpty("password", PasswordBlank, password)
    \o (IF isUniqueEmail(store, email) THEN <<>>
        ELSE <<FieldError("email", UniqueMsg, email)>>)

\* the validators of PATCH /:userId
PatchValidators(name, email) ==
    notEmpty("name", NameBlank, name) \o notEmpty("email", EmailBlank, email)

(* ------------------------------ storage ------------------------------- *)
NanoIds == {"V1StGXR8", "Uakgb_J5"}

\* join("public", "image", "users") followed by the separator
Destination == <<"public", "/", "image", "/", "users", "/">>

\* (mutant) the extension is taken from the client's file name
filenameFromOriginal(id, file) ==
    <<id, ".", file.originalname[Len(file.originalname)]>>

\* storage.filename: `${nanoid()}.${file.mimetype.split("/")[1]}`
filename(id, file) == <<id, ".">> \o Nth(Split(file.mimetype), 2)

\* String.prototype.replace(word, ""): drops the first occurrence of the lexeme
RECURSIVE ReplaceFirst(_, _)
ReplaceFirst(s, word) ==
    IF s = <<>> THEN <<>>
    ELSE IF Head(s) = word THEN Tail(s)
    ELSE <<Head(s)>> \o ReplaceFirst(Tail(s), word)

(* ------------------------------ requests ------------------------------ *)
Reqs == 1..MaxReqs

Names == {<<>>, <<"n">>}
Emails == {<<>>, <<"a">>}
Passwords == {<<>>, <<"p", "w">>}
UserIds == {1, 2}
OriginalNames == {<<"..", "/", "x", ".", "sh">>}
UploadMimes == {<<"image", "/", "png">>, <<"image", "/", "jpeg">>,
                <<"application", "/", "pdf">>}

\* the files a PATCH may carry: none (<<>>) or one part with a declared type
Uploads ==
    {<<>>} \cup {<<[mimetype |-> m, originalname |-> o]>> :
                    m \in UploadMimes, o \in OriginalNames}

IdleReq ==
    [kind |-> "idle", pc |-> "idle",
     name |-> <<>>, email |-> <<>>, password |-> <<>>, userId |-> 0,
     upload |-> <<>>, file |-> <<>>, uploadError |-> <<>>,
     errors |-> <<>>, hash |-> <<>>, user |-> <<>>,
     outcome |-> "none", rendered |-> <<>>,
     written |-> {}, hashCalls |-> 0, findCalls |-> 0, updateCalls |-> 0,
     saveCalls |-> 0, loggedIn |-> FALSE, imageBefore |-> <<>>]

SeedUser ==
    [id |-> 1, name |-> <<"bob">>, email |-> <<"b">>,
     password |-> generate(<<"p", "w">>, "salt1"),
     imageName |-> DefaultImageName]

RouterInit ==
    /\ users = <<SeedUser>>
    /\ files = {}
    /\ req = [r \in Reqs |-> IdleReq]

Upd(r, changes) == [req EXCEPT ![r] = changes @@ @]

(* ------------------------- POST / (signup) ---------------------------- *)
\* a request arrives and its validators run; isUniqueEmail reads the store
SignupValidate(r) ==
    /\ req[r].pc = "idle"
    /\ \E name \in Names, email \in Emails, password \in Passwords :
         req' = Upd(r, [kind |-> "signup", pc |-> "handler",
                        name |-> name, email |-> email, password |-> password,
                        errors |-> SignupValidators(users, name, email, password)])
    /\ UNCHANGED <<users, files, filterVars, hashVars>>

\* (mutant) the handler renders the form but does not return
SignupHandlerNoReturn(r) ==
    /\ req[r].kind = "signup" /\ req[r].pc = "handler"
    /\ IF req[r].errors # <<>>
       THEN req' = Upd(r, [pc |-> "hash", outcome |-> "render_new",
                           rendered |-> <<[user |-> [name |-> req[r].name,
                                                      email |-> req[r].email,
                                                      password |-> req[r].password],
                                           errors |-> req[r].errors]>>,
                           hashCalls |-> req[r].hashCalls + 1])
       ELSE req' = Upd(r, [pc |-> "hash", hashCalls |-> req[r].hashCalls + 1])
    /\ UNCHANGED <<users, files, filterVars, hashVars>>

\* the handler up to `await new HashPassword().generate(password)`
SignupHandler(r) ==
    /\ req[r].kind = "signup" /\ req[r].pc = "handler"
    /\ IF req[r].errors # <<>>
       THEN req' = Upd(r, [pc |-> "done", outcome |-> "render_new",
                           rendered |-> <<[user |-> [name |-> req[r].name,
                                                      email |-> req[r].email,
                                                      password |-> req[r].password],
                                           errors |-> req[r].errors]>>])
       ELSE req' = Upd(r, [pc |-> "hash", hashCalls |-> req[r].hashCalls + 1])
    /\ UNCHANGED <<users, files, filterVars, hashVars>>

\* the hash arrives; new User(...) and user.save() is called
SignupHash(r) ==
    /\ req[r].kind = "signup" /\ req[r].pc = "hash"
    /\ \E salt \in Salts :
         LET h == generate(req[r].password, salt)
         IN req' = Upd(r, [pc |-> "save", hash |-> <<h>>,
                           user |-> <<NewUser(req[r].name, req[r].email, h)>>,
                           saveCalls |-> req[r].saveCalls + 1])
    /\ UNCHANGED <<users, files, filterVars, hashVars>>

\* the insert is done; login, dialog message and redirect
SignupSave(r) ==
    /\ req[r].kind = "signup" /\ req[r].pc = "save"
    /\ users' = UserSave(users, req[r].user[1])
    /\ req' = Upd(r, [pc |-> "done", outcome |-> "redirect", loggedIn |-> TRUE,
                      user |-> <<users'[Len(users')]>>])
    /\ UNCHANGED <<files, filterVars, hashVars>>

(* ------------------------ PATCH /:userId ------------------------------ *)
UploadError(msg) ==
    [param |-> "image", msg |-> msg, location |-> "body", value |-> UndefinedSeg]

\* (mutant) the file goes on to the storage whatever the filter said
PatchUploadStoreAnyway(r) ==
    /\ req[r].pc = "idle"
    /\ \E userId \in UserIds, name \in Names, email \in Emails, up \in Uploads :
         LET base == [kind |-> "patch", userId |-> userId, name |-> name,
                      email |-> email, upload |-> up]
         IN  IF up = <<>> THEN req' = Upd(r, base @@ [pc |-> "handler"])
             ELSE LET f == fileFilter(up[1].mimetype)
                  IN IF f.err # ""
                     THEN req' = Upd(r, base @@ [pc |-> "store",
                                        uploadError |-> <<UploadError(f.err)>>])
                     ELSE req' = Upd(r, base @@ [pc |-> "store"])
    /\ UNCHANGED <<users, files, filterVars, hashVars>>

\* uploadHandler: multer parses the body and calls fileFilter on the file part;
\* a rejection comes back as err, an accepted file goes on to the storage
PatchUpload(r) ==
    /\ req[r].pc = "idle"
    /\ \E userId \in UserIds, name \in Names, email \in Emails, up \in Uploads :
         LET base == [kind |-> "patch", userId |-> userId, name |-> name,
                      email |-> email, upload |-> up]
         IN  IF up = <<>> THEN req' = Upd(r, base @@ [pc |-> "handler"])
             ELSE LET f == fileFilter(up[1].mimetype)
                  IN IF f.err # ""
                     THEN req' = Upd(r, base @@ [pc |-> "handler",
                                        uploadError |-> <<UploadError(f.err)>>])
                     ELSE req' = Upd(r, base @@ [pc |-> "store"])
    /\ UNCHANGED <<users, files, filterVars, hashVars>>

\* the disk storage names the accepted file and writes it; req.file is set
PatchStore(r) ==
    /\ req[r].kind = "patch" /\ req[r].pc = "store"
    /\ \E id \in NanoIds :
         LET outFileName == filename(id, req[r].upload[1])
         IN /\ files' = files \cup {outFileName}
            /\ req' = Upd(r, [pc |-> "handler",
                              file |-> <<[filename |-> outFileName,
                                          path |-> Destination \o outFileName,
                                          mimetype |-> req[r].upload[1].mimetype,
                                          originalname |-> req[r].upload[1].originalname]>>,
                              written |-> req[r].written \cup {outFileName}])
    /\ UNCHANGED <<users, filterVars, hashVars>>

\* (mutant) the handler looks at the field errors only
PatchHandlerIgnoresUpload(r) ==
    /\ req[r].kind = "patch" /\ req[r].pc = "handler"
    /\ LET errors == PatchValidators(req[r].name, req[r].email)
       IN IF errors # <<>>
          THEN req' = Upd(r, [pc |-> "done", outcome |-> "render_edit",
                              errors |-> errors,
                              rendered |-> <<[user |-> [id |-> req[r].userId,
                                                         name |-> req[r].name,
                                                         email |-> req[r].email],
                                              errors |-> errors \o req[r].uploadError]>>])
          ELSE req' = Upd(r, [pc |-> "find", errors |-> errors,
                              findCalls |-> req[r].findCalls + 1])
    /\ UNCHANGED <<users, files, filterVars, hashVars>>

\* (mutant) the upload error replaces the field errors instead of joining them
PatchHandlerUploadErrorOnly(r) ==
    /\ req[r].kind = "patch" /\ req[r].pc = "handler"
    /\ LET errors == PatchValidators(req[r].name, req[r].email)
       IN IF errors # <<>> \/ req[r].uploadError # <<>>
          THEN req' = Upd(r, [pc |-> "done", outcome |-> "render_edit",
                              errors |-> errors,
                              rendered |-> <<[user |-> [id |-> req[r].userId,
                                                         name |-> req[r].name,
                                                         email |-> req[r].email],
                                              errors |-> IF req[r].uploadError # <<>>
                                                         THEN req[r].uploadError
                                                         ELSE errors]>>])
          ELSE req' = Upd(r, [pc |-> "find", errors |-> errors,
                              findCalls |-> req[r].findCalls + 1])
    /\ UNCHANGED <<users, files, filterVars, hashVars>>

\* the validators and the handler up to `await User.find(...)`
PatchHandler(r) ==
    /\ req[r].kind = "patch" /\ req[r].pc = "handler"
    /\ LET errors == PatchValidators(req[r].name, req[r].email)
       IN IF errors # <<>> \/ req[r].uploadError # <<>>
          THEN req' = Upd(r, [pc |-> "done", outcome |-> "render_edit",
                              errors |-> errors,
                              rendered |-> <<[user |-> [id |-> req[r].userId,
                                                         name |-> req[r].name,
                                                         email |-> req[r].email],
                                              errors |-> errors \o req[r].uploadError]>>])
          ELSE req' = Upd(r, [pc |-> "find", errors |-> errors,
                              findCalls |-> req[r].findCalls + 1])
    /\ UNCHANGED <<users, files, filterVars, hashVars>>

\* (mutant) imageName is assigned from req.file whether or not there is one
PatchFindAlwaysSetsImage(r) ==
    /\ req[r].kind = "patch" /\ req[r].pc = "find"
    /\ LET found == UserFind(users, req[r].userId)
       IN IF found = <<>>
          THEN req' = Upd(r, [pc |-> "done", outcome |-> "next_error"])
          ELSE LET assigned == [found[1] EXCEPT !.name = req[r].name,
                                                !.email = req[r].email]
                   user == [assigned EXCEPT !.imageName =
                               IF req[r].file # <<>>
                               THEN ReplaceFirst(req[r].file[1].path, "public")
                               ELSE UndefinedSeg]
               IN req' = Upd(r, [pc |-> "update", user |-> <<user>>,
                                 imageBefore |-> found[1].imageName,
                                 updateCalls |-> req[r].updateCalls + 1])
    /\ UNCHANGED <<users, files, filterVars, hashVars>>

\* User.find answers; the object is assigned and user.update() is called
PatchFind(r) ==
    /\ req[r].kind = "patch" /\ req[r].pc = "find"
    /\ LET found == UserFind(users, req[r].userId)
       IN IF found = <<>>
          THEN req' = Upd(r, [pc |-> "done", outcome |-> "next_error"])
          ELSE LET assigned == [found[1] EXCEPT !.name = req[r].name,
                                                !.email = req[r].email]
                   user == IF req[r].file # <<>>
                           THEN [assigned EXCEPT !.imageName =
                                     ReplaceFirst(req[r].file[1].path, "public")]
                           ELSE assigned
               IN req' = Upd(r, [pc |-> "update", user |-> <<user>>,
                                 imageBefore |-> found[1].imageName,
                                 updateCalls |-> req[r].updateCalls + 1])
    /\ UNCHANGED <<users, files, filterVars, hashVars>>

\* the update is done; dialog message and redirect
PatchUpdate(r) ==
    /\ req[r].kind = "patch" /\ req[r].pc = "update"
    /\ users' = UserUpdate(users, req[r].user[1])
    /\ req' = Upd(r, [pc |-> "done", outcome |-> "redirect"])
    /\ UNCHANGED <<files, filterVars, hashVars>>

SignupNext ==
    \E r \in Reqs :
        \/ SignupValidate(r)
        \/ SignupHandler(r)
        \/ SignupHash(r)
        \/ SignupSave(r)

PatchNext ==
    \E r \in Reqs :
        \/ PatchUpload(r)
        \/ PatchStore(r)
        \/ PatchHandler(r)
        \/ PatchFind(r)
        \/ PatchUpdate(r)

(* ------------------ the filter and the hasher on their own ------------ *)
MimeLexemes == {"/", "image", "png", "jpeg", "gif", "text"}

RECURSIVE SeqsUpTo(_, _)
SeqsUpTo(S, n) ==
    IF n = 0 THEN {<<>>}
    ELSE LET shorter == SeqsUpTo(S, n - 1)
         IN shorter \cup {Append(s, x) : s \in {t \in shorter : Len(t) = n - 1}, x \in S}

MimeTypes == SeqsUpTo(MimeLexemes, MaxMimeLen)

Bytes == {"a", "b"}
Pad72 == [i \in 1..72 |-> "a"]
Plaintexts ==
    SeqsUpTo(Bytes, MaxShortLen) \cup {Pad72} \cup {Pad72 \o <<c>> : c \in Bytes}

FilterIdle == /\ fmime = <<>> /\ fstage = "off" /\ fresult = fileFilter(<<>>)
HashIdle == /\ hplain = <<>> /\ hashes = {} /\ cmp = <<>>

\* multer hands a file's declared type to fileFilter
FilterCall ==
    /\ fstage = "input"
    /\ fresult' = fileFilter(fmime)
    /\ fstage' = "called"
    /\ UNCHANGED <<fmime, routerVars, hashVars>>

\* generate(hplain) with a fresh salt
HashGenerate ==
    /\ \E salt \in Salts : hashes' = hashes \cup {generate(hplain, salt)}
    /\ UNCHANGED <<hplain, cmp, routerVars, filterVars>>

\* compare(q, h) for a hash some generate(hplain) returned
HashCompare ==
    /\ \E q \in Plaintexts, h \in hashes :
         cmp' = <<[plain |-> q, hash |-> h, result |-> compare(q, h)]>>
    /\ UNCHANGED <<hplain, hashes, routerVars, filterVars>>

(* --------------------------- specifications --------------------------- *)
Init == RouterInit /\ FilterIdle /\ HashIdle

\* signup requests, interleaved at their awaits
SpecSignup == Init /\ [][SignupNext]_vars

\* profile updates, interleaved at their awaits
SpecPatch == Init /\ [][PatchNext]_vars

FilterInit ==
    /\ RouterInit /\ HashIdle
    /\ fmime \in MimeTypes /\ fstage = "input" /\ fresult = fileFilter(<<>>)
FilterNext == FilterCall
SpecFilter == FilterInit /\ [][FilterNext]_vars

HashInit ==
    /\ RouterInit /\ FilterIdle
    /\ hplain \in Plaintexts /\ hashes = {} /\ cmp = <<>>
HashNext == HashGenerate \/ HashCompare
SpecHash == HashInit /\ [][HashNext]_vars

(* ------------------------------- claims ------------------------------- *)
PatchReqs == {r \in Reqs : req[r].kind = "patch"}
SignupReqs == {r \in Reqs : req[r].kind = "signup"}

Has(list, e) == \E i \in 1..Len(list) : list[i] = e

\* the declared type reads image/png or image/jpeg, alone or followed by
\* further "/"-separated segments
ReadsAsImage(m) ==
    /\ Len(m) >= 3
    /\ m[1] = "image" /\ m[2] = "/" /\ m[3] \in {"png", "jpeg"}
    /\ Len(m) > 3 => m[4] = "/"

\* C1: the file filter accepts a declared media type exactly when its first
\* "/"-separated part is "image" and its second part is png or jpeg; every
\* other string is rejected with the fixed message.
C1_FilterAcceptsExactlyImages ==
    fstage = "called" =>
        /\ fresult.accept <=> ReadsAsImage(fmime)
        /\ fresult.accept => fresult.err = ""
        /\ ~fresult.accept =>
              fresult.err = "Only image files in png or jpeg format can be uploaded"

C1_Witness ==
    /\ fstage = "called"
    /\ fmime = <<"image", "/", "png", "/">>
    /\ fresult.accept

Rejected(r) ==
    /\ req[r].upload # <<>>
    /\ ~ReadsAsImage(req[r].upload[1].mimetype)

\* C2: a PATCH whose file the filter rejects never reaches the storage step and
\* writes no file; from the end of uploadHandler on, req.uploadError is the
\* record {param: "image", msg: the rejection message, location: "body", value}.
C2_RejectedUploadWritesNothing ==
    \A r \in PatchReqs :
        Rejected(r) =>
            /\ req[r].pc # "store"
            /\ req[r].written = {}
            /\ req[r].file = <<>>
            /\ req[r].uploadError =
                  <<[param |-> "image",
                     msg |-> "Only image files in png or jpeg format can be uploaded",
                     location |-> "body", value |-> UndefinedSeg]>>

C2_Witness ==
    \E r \in PatchReqs :
        /\ Rejected(r) /\ req[r].pc = "done"
        /\ \E q \in PatchReqs : req[q].written # {} /\ files # {}

\* C3: a PATCH with a rejected upload or a blank name or email ends by
\* re-rendering the edit form with the submitted name and email; User.find and
\* user.update are never called for it and it does not redirect.
C3_FailedPatchRerendersForm ==
    \A r \in PatchReqs :
        (/\ req[r].pc \notin {"store", "handler"}
         /\ (req[r].uploadError # <<>> \/ req[r].name = <<>> \/ req[r].email = <<>>))
        => /\ req[r].pc = "done"
           /\ req[r].outcome = "render_edit"
           /\ req[r].rendered[1].user =
                 [id |-> req[r].userId, name |-> req[r].name, email |-> req[r].email]
           /\ req[r].findCalls = 0
           /\ req[r].updateCalls = 0

C3_Witness ==
    \E r \in PatchReqs :
        /\ req[r].outcome = "render_edit"
        /\ req[r].uploadError # <<>>
        /\ req[r].name # <<>> /\ req[r].email # <<>>
        /\ users = <<SeedUser>>

\* C4: the error list of a re-rendered edit form holds the blank-name error when
\* the name is blank, the blank-email error when the email is blank, and the
\* upload error exactly when the upload was rejected.
C4_AllErrorsReported ==
    \A r \in PatchReqs :
        req[r].outcome = "render_edit" =>
            LET errs == req[r].rendered[1].errors
            IN /\ req[r].name = <<>> =>
                     Has(errs, FieldError("name", "Name can't be blank", <<>>))
               /\ req[r].email = <<>> =>
                     Has(errs, FieldError("email", "Email can't be blank", <<>>))
               /\ (\E i \in 1..Len(errs) : errs[i].param = "image") <=> Rejected(r)
               /\ Rejected(r) => Has(errs, req[r].uploadError[1])

C4_Witness ==
    \E r \in PatchReqs :
        /\ req[r].outcome = "render_edit"
        /\ req[r].name = <<>> /\ req[r].email = <<>> /\ Rejected(r)
        /\ Len(req[r].rendered[1].errors) = 3

\* C5: a signup whose validation result is not empty re-renders the new-user
\* form with those errors and neither hashes, saves nor logs in; a blank field
\* always gives a non-empty result, and hashing happens only on an empty one.
C5_InvalidSignupNeverHashes ==
    \A r \in SignupReqs :
        /\ (req[r].name = <<>> \/ req[r].email = <<>> \/ req[r].password = <<>>)
              => req[r].errors # <<>>
        /\ req[r].hashCalls > 0 => req[r].errors = <<>>
        /\ (req[r].errors # <<>> /\ req[r].pc # "handler") =>
              /\ req[r].pc = "done"
              /\ req[r].outcome = "render_new"
              /\ req[r].rendered[1].errors = req[r].errors
              /\ req[r].hashCalls = 0
              /\ req[r].saveCalls = 0
              /\ ~req[r].loggedIn

C5_Witness ==
    \E r, q \in SignupReqs :
        /\ req[r].outcome = "render_new"
        /\ Has(req[r].errors, FieldError("email", UniqueMsg, <<"a">>))
        /\ req[q].outcome = "redirect"

\* C6: no two stored users have the same email.
C6_NoDuplicateEmail ==
    \A i, j \in 1..Len(users) : i # j => users[i].email # users[j].email

\* C7: compare(q, h) is true exactly when q is the plaintext h was generated from.
C7_CompareIffSamePlaintext ==
    cmp # <<>> => (cmp[1].result <=> cmp[1].plain = hplain)

\* C8: every stored file is named <generated id>.<subtype> with the subtype of
\* the file's accepted media type, which is png or jpeg.
C8_StoredNameIsIdDotSubtype ==
    /\ \A f \in files :
          Len(f) = 3 /\ f[1] \in NanoIds /\ f[2] = "." /\ f[3] \in {"png", "jpeg"}
    /\ \A r \in PatchReqs :
          req[r].file # <<>> =>
              /\ req[r].file[1].filename \in files
              /\ req[r].file[1].filename[3] = req[r].upload[1].mimetype[3]
              /\ ReadsAsImage(req[r].upload[1].mimetype)

C8_Witness ==
    \E r \in PatchReqs :
        /\ req[r].file # <<>>
        /\ req[r].file[1].filename[3] = "jpeg"

\* C9: the update of a valid PATCH writes the submitted name and email; without
\* a file it writes back the imageName that User.find returned; with an accepted
\* file it writes the stored path without its "public" prefix.
C9_UpdateKeepsImageWithoutFile ==
    [][\A r \in Reqs :
          (req[r].kind = "patch" /\ req[r].pc = "update" /\ req'[r].pc = "done") =>
              LET u == users'[req[r].userId]
              IN /\ u.name = req[r].name
                 /\ u.email = req[r].email
                 /\ req[r].upload = <<>> => u.imageName = req[r].imageBefore
                 /\ req[r].upload # <<>> =>
                       u.imageName = <<"/", "image", "/", "users", "/">>
                                        \o req[r].file[1].filename]_vars

C9_Witness ==
    \E r \in PatchReqs :
        /\ req[r].outcome = "redirect"
        /\ req[r].upload = <<>>
        /\ users[req[r].userId].name = <<"n">>
        /\ users[req[r].userId].imageName = DefaultImageName

\* C10: a PATCH that ends by re-rendering the form or by forwarding the
\* "user is undefined" error has written no file.
C10_FailedPatchLeavesNoFile ==
    \A r \in PatchReqs :
        req[r].outcome \in {"render_edit", "next_error"} => req[r].written = {}

====
